---- MODULE Spec2Model ----
(***************************************************************************)
(* Hypothesis generation (src/agents/insight_agent.py) and evidence        *)
(* validation (src/agents/evaluator.py) over a metrics summary, and the    *)
(* loading (src/utils/loader.py) and summarising (src/agents/data_agent.py)*)
(* of the CSV the summary comes from.                                      *)
(*                                                                         *)
(* Python values are modelled as follows.                                  *)
(*  - A dict is a TLA+ record/function; a missing key is a string that is  *)
(*    not in its DOMAIN, and d.get(k, default) is Get(d, k, default).      *)
(*  - None is the string None (no id or name of the model is that string). *)
(*  - A real number is an exact rational Rat(n, d), d > 0. The code works  *)
(*    in IEEE-754 doubles: for the small integers of the model two         *)
(*    different exact values differ by far more than a rounding error, so  *)
(*    a float comparison agrees with the exact one except when the exact   *)
(*    values are equal. There the rounding of the means (sum / 7) and of   *)
(*    the quotient decides; the ...TieAbove/TieBelow tables give the       *)
(*    binary64 outcome for the window sums the model reaches.              *)
(*  - A text is the sequence of the pieces an f-string joins.              *)
(***************************************************************************)
EXTENDS Integers, Sequences, FiniteSets, TLC

VARIABLES
    summary,      \* the Summary dict handed to both agents
    cfg,          \* the configuration dict
    pSmall,       \* whether the Welch test on this summary's ROAS windows gives p < 0.1
    hashSeed,     \* this process's string-hash randomisation (set order)
    hypotheses,   \* the list handed to Evaluator.validate
    prevHyps,     \* generate_hypotheses' output in the previous run
    validations,  \* Evaluator.validate's local list
    idx,          \* position of the for loop of validate (1-based)
    pc,           \* "start" | "ready" | "validating" | "returned" | "raised"
    runs,         \* number of program runs started
    csv_file,     \* what is at the CSV path: nothing, an unreadable file or a CSV
    retries,      \* load_csv's argument
    delay_seconds,\* load_csv's argument
    attempt,      \* load_csv's local counter
    tries,        \* number of times the try block of load_csv was entered
    sleeps,       \* number of completed time.sleep calls
    df,           \* the dataframe load_csv returned
    exc,          \* the type of the exception that left the call
    dpc           \* "idle" | "loop" | "loaded" | "raised" | "summarized" | "summary_raised"

dataVars == <<csv_file, retries, delay_seconds, attempt, tries, sleeps, df, exc, dpc>>
evalVars == <<cfg, pSmall, hashSeed, hypotheses, prevHyps, validations, idx, pc, runs>>
vars == <<summary, cfg, pSmall, hashSeed, hypotheses, prevHyps, validations, idx, pc, runs,
          csv_file, retries, delay_seconds, attempt, tries, sleeps, df, exc, dpc>>

---------------------------------------------------------------------------
(* Bounds of the model *)
MaxDays == 15
MaxRoas == 5
MaxLow == 11
MaxVal == 1
MaxRev == 5
MaxHyps == 2
MaxRuns == 2

(* Program constants *)
Window == 7
MinDays == 14
MaxCreative == 10
LowCtrThreshold == 10
MinImpressionsForStat == 50

None == "None"
EmptyDict == <<>>

---------------------------------------------------------------------------
(* Python helpers *)

Get(d, k, default) == IF k \in DOMAIN d THEN d[k] ELSE default

Max2(a, b) == IF a >= b THEN a ELSE b
Min2(a, b) == IF a <= b THEN a ELSE b

\* s[a:b] for a, b given as Python indices (negative: from the end; b = None
\* is written as 0 with toEnd = TRUE), clamped as Python clamps them.
PySlice(s, a, b, toEnd) ==
    LET n     == Len(s)
        start == IF a < 0 THEN Max2(n + a, 0) ELSE Min2(a, n)
        stop  == IF toEnd THEN n ELSE IF b < 0 THEN Max2(n + b, 0) ELSE Min2(b, n)
    IN  IF stop <= start THEN <<>> ELSE SubSeq(s, start + 1, stop)

Prev7(daily) == PySlice(daily, 0 - 2 * Window, 0 - Window, FALSE)
Last7(daily) == PySlice(daily, 0 - Window, 0, TRUE)

RECURSIVE SumSeq(_)
SumSeq(s) == IF s = <<>> THEN 0 ELSE Head(s) + SumSeq(Tail(s))

Field(rows, k) == [i \in 1..Len(rows) |-> Get(rows[i], k, 0)]

(* Exact rationals, kept in lowest terms *)
RECURSIVE Gcd(_, _)
Gcd(a, b) == IF b = 0 THEN a ELSE Gcd(b, a % b)
Rat(n, d) ==
    LET g == Gcd(IF n < 0 THEN 0 - n ELSE n, d)
    IN  [n |-> n \div g, d |-> d \div g]
RZero == Rat(0, 1)
RSub(a, b) == Rat(a.n * b.d - b.n * a.d, a.d * b.d)
RDiv(a, b) == IF b.n > 0 THEN Rat(a.n * b.d, a.d * b.n) ELSE Rat(0 - a.n * b.d, a.d * (0 - b.n))
RAbs(a) == Rat(IF a.n < 0 THEN 0 - a.n ELSE a.n, a.d)
RGt(a, b) == a.n * b.d > b.n * a.d
REq(a, b) == a.n * b.d = b.n * a.d
RPos(a) == a.n > 0
RAdd(a, b) == Rat(a.n * b.d + b.n * a.d, a.d * b.d)
RECURSIVE RSumSeq(_)
RSumSeq(s) == IF s = <<>> THEN Rat(0, 1) ELSE RAdd(Head(s), RSumSeq(Tail(s)))

\* np.mean of a non-empty list of numbers
NpMean(xs) == Rat(SumSeq(xs), Len(xs))

\* x > t and x < t on doubles: the exact comparison, and at an exact tie the
\* outcome `tie` that the rounding of x produces
FloatGt(x, t, tie) == RGt(x, t) \/ (REq(x, t) /\ tie)
FloatLt(x, t, tie) == RGt(t, x) \/ (REq(x, t) /\ tie)

\* Binary64 outcomes at exact ties, by the sums of the two windows (each mean is
\* sum / 7.0). Valid for sums up to 100.
\* ((P/7 - L/7) / (P/7)) > 0.15 or > 0.5 where (P - L)/P is exactly 0.15 or 0.5
PctDropTieAbove == {<<20, 17>>, <<40, 34>>, <<80, 68>>, <<100, 85>>}
\* ((P/7 - L/7) / (P/7)) > 0.2 where (P - L)/P is exactly 0.2
RevDropTieAbove == {<<5, 4>>, <<10, 8>>, <<20, 16>>, <<40, 32>>, <<65, 52>>, <<80, 64>>, <<85, 68>>}
\* abs((L/7 - P/7) / (P/7)) < 0.1 where |L - P|/P is exactly 0.1
ClicksTieBelow == {<<10, 9>>, <<10, 11>>, <<20, 18>>, <<20, 22>>, <<30, 27>>, <<40, 36>>,
                   <<40, 44>>, <<50, 55>>, <<60, 54>>, <<80, 72>>, <<80, 88>>, <<90, 99>>}
\* (cp_last - cp_prev) / cp_prev > 0.1 where it is exactly 0.1, by <<prev spend,
\* prev impressions, last spend, last impressions>> sums in 0..14, 70 or 77
CpChangeTieAbove ==
    {<<1, 1, 77, 70>>, <<1, 7, 11, 70>>, <<1, 11, 7, 70>>, <<1, 77, 1, 70>>, <<2, 2, 77, 70>>,
     <<2, 11, 14, 70>>, <<2, 14, 11, 70>>, <<2, 77, 2, 70>>, <<3, 3, 77, 70>>, <<3, 11, 3, 10>>,
     <<3, 77, 3, 70>>, <<4, 4, 77, 70>>, <<4, 77, 4, 70>>, <<5, 3, 11, 6>>, <<5, 5, 77, 70>>,
     <<5, 6, 11, 12>>, <<6, 6, 77, 70>>, <<6, 11, 3, 5>>, <<6, 11, 6, 10>>, <<6, 77, 6, 70>>,
     <<7, 1, 77, 10>>, <<7, 7, 77, 70>>, <<7, 77, 7, 70>>, <<8, 8, 77, 70>>, <<8, 77, 8, 70>>,
     <<9, 9, 77, 70>>, <<9, 77, 9, 70>>, <<10, 3, 11, 3>>, <<10, 6, 11, 6>>, <<10, 10, 77, 70>>,
     <<10, 12, 11, 12>>, <<10, 70, 11, 70>>, <<11, 11, 77, 70>>, <<11, 77, 11, 70>>,
     <<12, 11, 6, 5>>, <<12, 11, 12, 10>>, <<12, 12, 77, 70>>, <<12, 77, 12, 70>>,
     <<13, 13, 77, 70>>, <<13, 77, 13, 70>>, <<14, 1, 77, 5>>, <<14, 2, 77, 10>>,
     <<14, 14, 77, 70>>, <<14, 77, 14, 70>>, <<70, 5, 77, 5>>, <<70, 9, 77, 9>>,
     <<70, 10, 77, 10>>, <<70, 70, 77, 70>>, <<70, 77, 1, 1>>, <<70, 77, 2, 2>>,
     <<70, 77, 3, 3>>, <<70, 77, 4, 4>>, <<70, 77, 5, 5>>, <<70, 77, 6, 6>>, <<70, 77, 7, 7>>,
     <<70, 77, 8, 8>>, <<70, 77, 9, 9>>, <<70, 77, 10, 10>>, <<70, 77, 11, 11>>,
     <<70, 77, 12, 12>>, <<70, 77, 13, 13>>, <<70, 77, 14, 14>>, <<70, 77, 70, 70>>,
     <<70, 77, 77, 77>>, <<77, 11, 77, 10>>, <<77, 77, 77, 70>>}

WindowSum(rows, k) == SumSeq(Field(rows, k))

(* f-string number formats *)
Digits(n, width) ==
    LET s == ToString(n)
    IN  IF width = 3 /\ n < 10 THEN "00" \o s
        ELSE IF (width = 3 /\ n < 100) \/ (width = 2 /\ n < 10) THEN "0" \o s
        ELSE s

\* f"{r:.2%}" for r >= 0
FormatPct2(r) ==
    LET h == (2 * 10000 * r.n + r.d) \div (2 * r.d)
    IN  ToString(h \div 100) \o "." \o Digits(h % 100, 2) \o "%"

\* f"{ctr:.3%}" for a ctr given in units of 0.001
FormatPct3(ctr) ==
    LET t == ctr * 100
    IN  ToString(t \div 1000) \o "." \o Digits(t % 1000, 3) \o "%"

---------------------------------------------------------------------------
(* Campaign names: str.lower() and the substring test, on the names used *)

\* name.lower()
Lower(name) ==
    CASE name = "Facebook_US" -> "facebook_us"
      [] name = "INSTAGRAM_Stories" -> "instagram_stories"
      [] name = "Insta_Facebook_Mix" -> "insta_facebook_mix"
      [] OTHER -> name

\* needle in hay (case-sensitive substring test)
Contains(needle, hay) ==
    CASE needle = "instagram" -> hay \in {"instagram_stories", "instagram_reels"}
      [] needle = "facebook" -> hay \in {"facebook_us", "insta_facebook_mix", "facebook_lookalike"}
      [] OTHER -> FALSE

\* Iteration order of a set of strings: fixed by the process's hash seed
SetOrder(S, seed) ==
    IF S = {"instagram", "facebook"}
    THEN IF seed = 0 THEN <<"instagram", "facebook">> ELSE <<"facebook", "instagram">>
    ELSE IF S = {} THEN <<>> ELSE <<CHOOSE x \in S : TRUE>>

\* sep.join(items), as the pieces it concatenates
RECURSIVE Join(_, _)
Join(sep, items) ==
    IF Len(items) = 0 THEN <<>>
    ELSE IF Len(items) = 1 THEN items
    ELSE <<Head(items), sep>> \o Join(sep, Tail(items))

---------------------------------------------------------------------------
(* InsightAgent.generate_hypotheses *)

DefaultRoasDropThreshold == Rat(15, 100)

\* pct_drop of rule 1, for len(daily) >= 14
PctDrop(daily) ==
    LET roas_last == NpMean(Field(Last7(daily), "roas"))
        roas_prev == NpMean(Field(Prev7(daily), "roas"))
    IN  IF RPos(roas_prev) THEN RDiv(RSub(roas_prev, roas_last), roas_prev) ELSE RZero

RuleRoasDrop(s, c) ==
    LET daily == Get(s, "daily", <<>>)
    IN  IF Len(daily) >= MinDays
           /\ FloatGt(PctDrop(daily), Get(c, "roas_drop_threshold_pct", DefaultRoasDropThreshold),
                      <<WindowSum(Prev7(daily), "roas"), WindowSum(Last7(daily), "roas")>>
                          \in PctDropTieAbove)
        THEN << [hypothesis_id |-> "h_roas_drop",
                 hypothesis |-> <<"Average daily ROAS fell by ", FormatPct2(PctDrop(daily)),
                                  " in the last 7 days vs the prior 7 days.">>,
                 reasoning |-> "Significant relative decline in average daily ROAS detected across windows.",
                 expected_signals |-> <<"roas_down", "revenue_down_or_spend_up", "ctr_down">>,
                 confidence |-> 65] >>
        ELSE <<>>

CreativeId(i) == "h_creative_" \o ToString(i)

\* (mutant) rule 2 without the [:10] cap
RuleCreativeNoCap(s) ==
    LET low == Get(s, "low_ctr_campaigns", <<>>)
    IN  [i \in 1..Len(low) |->
            [hypothesis_id |-> CreativeId(i),
             hypothesis |-> <<"Campaign '", Get(low[i], "campaign_name", "campaign_" \o ToString(i - 1)),
                              "' has low CTR", " (", FormatPct3(Get(low[i], "ctr", 0)),
                              ") suggesting creative underperformance or poor relevance.">>,
             reasoning |-> "Campaign-level CTR below configured threshold; creatives may not be resonating.",
             expected_signals |-> <<"low_ctr", "low_clicks", "low_conversion_rate">>,
             confidence |-> 70]]

RuleCreative(s) ==
    LET low == PySlice(Get(s, "low_ctr_campaigns", <<>>), 0, MaxCreative, FALSE)
    IN  [i \in 1..Len(low) |->
            [hypothesis_id |-> CreativeId(i),
             hypothesis |-> <<"Campaign '", Get(low[i], "campaign_name", "campaign_" \o ToString(i - 1)),
                              "' has low CTR", " (", FormatPct3(Get(low[i], "ctr", 0)),
                              ") suggesting creative underperformance or poor relevance.">>,
             reasoning |-> "Campaign-level CTR below configured threshold; creatives may not be resonating.",
             expected_signals |-> <<"low_ctr", "low_clicks", "low_conversion_rate">>,
             confidence |-> 70]]

RuleAudienceSaturation ==
    << [hypothesis_id |-> "h_audience_saturation",
        hypothesis |-> <<"Possible audience saturation or targeting overlap leading to higher costs (CPM) and lower ROAS.">>,
        reasoning |-> "When impressions plateau but cost increases, it indicates saturation or audience overlap.",
        expected_signals |-> <<"impressions_flat", "cpm_up", "frequency_up">>,
        confidence |-> 45] >>

NameOf(c) == IF Get(c, "campaign_name", None) = None THEN "" ELSE Lower(c.campaign_name)

Platforms(campaign_list) ==
    {p \in {"instagram", "facebook"} :
        \E i \in 1..Len(campaign_list) : Contains(p, NameOf(campaign_list[i]))}

RulePlatform(s, seed) ==
    LET platforms == Platforms(Get(s, "campaign", <<>>))
    IN  IF platforms # {}
        THEN << [hypothesis_id |-> "h_platform_specific",
                 hypothesis |-> <<"Performance changes may be concentrated on platform(s): ">>
                                \o Join(", ", SetOrder(platforms, seed)) \o <<".">>,
                 reasoning |-> "Campaign naming indicates platform-specific targeting; platform-level issues or bid changes may affect ROAS.",
                 expected_signals |-> <<"platform_roas_change", "platform_ctr_change">>,
                 confidence |-> 40] >>
        ELSE <<>>

RuleDataQuality ==
    << [hypothesis_id |-> "h_data_quality",
        hypothesis |-> <<"Possible tracking or attribution issues causing artificial ROAS fluctuations.">>,
        reasoning |-> "If purchases or revenue drop without a commensurate drop in clicks/impressions, tracking might be affected.",
        expected_signals |-> <<"revenue_drop_without_click_drop", "sudden_zero_values", "missing_dates">>,
        confidence |-> 30] >>

generate_hypotheses(s, c, seed) ==
    RuleRoasDrop(s, c) \o RuleCreative(s) \o RuleAudienceSaturation
        \o RulePlatform(s, seed) \o RuleDataQuality

---------------------------------------------------------------------------
(* Evaluator.validate *)

DefaultLowCtrThreshold == LowCtrThreshold
DefaultMinImpressions == MinImpressionsForStat

\* f"{x:.kf}" of a rational, k decimals (round half up on the magnitude)
Pow10(k) == IF k = 2 THEN 100 ELSE IF k = 3 THEN 1000 ELSE 10000
FormatFixed(r, k) ==
    LET a == RAbs(r)
        h == (2 * Pow10(k) * a.n + a.d) \div (2 * a.d)
        frac == h % Pow10(k)
        fs == ToString(frac)
        pad == IF frac < 10 THEN (IF k = 2 THEN "0" ELSE IF k = 3 THEN "00" ELSE "000")
               ELSE IF frac < 100 THEN (IF k = 2 THEN "" ELSE IF k = 3 THEN "0" ELSE "00")
               ELSE IF frac < 1000 THEN (IF k = 4 THEN "0" ELSE "")
               ELSE ""
    IN  (IF r.n < 0 /\ h > 0 THEN "-" ELSE "") \o ToString(h \div Pow10(k)) \o "." \o pad \o fs

\* What the loop body does with one hypothesis: a result dict, or an exception
Result(hid, validated, p_value, effect, evidence) ==
    [raised |-> FALSE,
     result |-> [hypothesis_id |-> hid, validated |-> validated, p_value |-> p_value,
                 effect_size |-> effect, evidence |-> evidence]]
Raise == [raised |-> TRUE, result |-> EmptyDict]

\* All values of a window are equal (zero sample variance)
Constant(xs) == \A i \in 1..Len(xs) : xs[i] = xs[1]

\* stats.ttest_ind(prev7, last7, equal_var=False): the class of its p-value.
\* Two constant windows give p = 0 when their means differ and nan when not;
\* equal means give t = 0, p = 1; otherwise the Student-t tail decides (small).
TTestP(prev7, last7, small) ==
    IF Constant(prev7) /\ Constant(last7)
    THEN IF SumSeq(prev7) = SumSeq(last7) THEN "nan" ELSE "p<0.1"
    ELSE IF SumSeq(prev7) = SumSeq(last7) THEN "p>=0.1"
    ELSE IF small THEN "p<0.1" ELSE "p>=0.1"

ValidateRoasDrop(hid, daily, small) ==
    IF Len(daily) >= MinDays
    THEN LET prev7 == Field(Prev7(daily), "roas")
             last7 == Field(Last7(daily), "roas")
             p_value == TTestP(prev7, last7, small)
             roas_prev == NpMean(prev7)
             roas_last == NpMean(last7)
             effect == RSub(roas_prev, roas_last)
         IN  Result(hid, p_value = "p<0.1" /\ RPos(effect), p_value, FormatFixed(effect, 3),
                    <<"prev_mean=", FormatFixed(roas_prev, 3), ", last_mean=",
                      FormatFixed(roas_last, 3), ", p=", p_value>>)
    ELSE Result(hid, FALSE, None, None,
                <<"Insufficient daily data (<14 days) to test ROAS windows.">>)

\* re.search(r"Campaign '(.+?)' has low CTR", txt): group 1, or None
ReSearchCampaign(txt) ==
    LET hits == {i \in 1..Len(txt) : /\ i + 2 <= Len(txt)
                                      /\ txt[i] = "Campaign '"
                                      /\ txt[i + 1] # ""
                                      /\ txt[i + 2] = "' has low CTR"}
    IN  IF hits = {} THEN None
        ELSE txt[(CHOOSE i \in hits : \A j \in hits : i <= j) + 1]

\* The for/break loop over campaign_list: the first entry with that name
FindCampaign(campaign_list, campaign_name) ==
    LET hits == {i \in 1..Len(campaign_list) :
                    /\ campaign_name # None /\ campaign_name # ""
                    /\ Get(campaign_list[i], "campaign_name", None) = campaign_name}
    IN  IF hits = {} THEN EmptyDict
        ELSE campaign_list[CHOOSE i \in hits : \A j \in hits : i <= j]

Truthy(d) == DOMAIN d # {}

\* The campaign the h_creative branch judges (EmptyDict: none)
CreativeMatch(h, s) ==
    LET found == FindCampaign(Get(s, "campaign", <<>>), ReSearchCampaign(Get(h, "hypothesis", <<>>)))
        low == Get(s, "low_ctr_campaigns", <<>>)
    IN  IF Truthy(found) THEN found
        ELSE IF Len(low) > 0 THEN low[1] ELSE EmptyDict

ValidateCreative(hid, h, s, c) ==
    LET match == CreativeMatch(h, s)
        ctr == Get(match, "ctr", 0)
        impressions == Get(match, "impressions", 0)
    IN  IF Truthy(match)
        THEN Result(hid,
                    ctr < Get(c, "low_ctr_threshold", DefaultLowCtrThreshold)
                      /\ impressions >= Get(c, "min_impressions_for_stat", DefaultMinImpressions),
                    None, None,
                    <<"campaign_ctr=", FormatFixed(Rat(ctr, 1000), 4), ", impressions=",
                      ToString(impressions)>>)
        ELSE Result(hid, FALSE, None, None, <<"No matching campaign found in summary.">>)

\* (mutant) the mean of the per-day spend / impressions
CpOfPerDay(rows) ==
    LET perDay == [i \in 1..Len(rows) |->
                      IF Get(rows[i], "impressions", 0) > 0
                      THEN Rat(Get(rows[i], "spend", 0), Get(rows[i], "impressions", 0))
                      ELSE RZero]
    IN  RDiv(RSumSeq(perDay), Rat(Len(rows), 1))

\* cp_prev, cp_last and cp_change of the h_audience_saturation branch
CpOf(rows) ==
    LET spend == NpMean(Field(rows, "spend"))
        imp == NpMean(Field(rows, "impressions"))
    IN  IF RPos(imp) THEN RDiv(spend, imp) ELSE RZero

CpChange(daily) ==
    LET cp_prev == CpOf(Prev7(daily))
        cp_last == CpOf(Last7(daily))
    IN  IF RPos(cp_prev) THEN RDiv(RSub(cp_last, cp_prev), cp_prev) ELSE RZero

\* (mutant) the branch with a 7-day guard instead of the 14-day one
ValidateAudienceSaturationShortGuard(hid, daily) ==
    IF Len(daily) >= Window
    THEN Result(hid, FloatGt(CpChange(daily), Rat(1, 10), FALSE), None, None,
                <<"cp_prev=", FormatFixed(CpOf(Prev7(daily)), 3),
                  ", cp_last=", FormatFixed(CpOf(Last7(daily)), 3),
                  ", cp_change=", FormatFixed(CpChange(daily), 3)>>)
    ELSE Result(hid, FALSE, None, None,
                <<"Insufficient daily data to evaluate audience saturation.">>)

ValidateAudienceSaturation(hid, daily) ==
    IF Len(daily) >= MinDays
    THEN Result(hid, FloatGt(CpChange(daily), Rat(1, 10),
                         <<WindowSum(Prev7(daily), "spend"), WindowSum(Prev7(daily), "impressions"),
                           WindowSum(Last7(daily), "spend"), WindowSum(Last7(daily), "impressions")>>
                             \in CpChangeTieAbove), None, None,
                <<"cp_prev=", FormatFixed(CpOf(Prev7(daily)), 3),
                  ", cp_last=", FormatFixed(CpOf(Last7(daily)), 3),
                  ", cp_change=", FormatFixed(CpChange(daily), 3)>>)
    ELSE Result(hid, FALSE, None, None,
                <<"Insufficient daily data to evaluate audience saturation.">>)

\* (mutant) the revenue drop relative to the last window
RevDropPctOfLast(daily) ==
    LET prev_revenue == NpMean(Field(Prev7(daily), "revenue"))
        last_revenue == NpMean(Field(Last7(daily), "revenue"))
    IN  IF RPos(last_revenue) THEN RDiv(RSub(prev_revenue, last_revenue), last_revenue) ELSE RZero

RevDropPct(daily) ==
    LET prev_revenue == NpMean(Field(Prev7(daily), "revenue"))
        last_revenue == NpMean(Field(Last7(daily), "revenue"))
    IN  IF RPos(prev_revenue) THEN RDiv(RSub(prev_revenue, last_revenue), prev_revenue) ELSE RZero

ClicksChange(daily) ==
    LET prev_clicks == NpMean(Field(Prev7(daily), "clicks"))
        last_clicks == NpMean(Field(Last7(daily), "clicks"))
    IN  IF RPos(prev_clicks) THEN RDiv(RSub(last_clicks, prev_clicks), prev_clicks) ELSE RZero

ValidateDataQuality(hid, daily, s) ==
    LET recent == Get(s, "recent_summary", EmptyDict)
    IN  IF Len(daily) > 0 /\ Truthy(recent)
        THEN IF Len(daily) >= MinDays
             THEN Result(hid,
                         FloatGt(RevDropPct(daily), Rat(2, 10),
                                 <<WindowSum(Prev7(daily), "revenue"), WindowSum(Last7(daily), "revenue")>>
                                     \in RevDropTieAbove)
                           /\ FloatLt(RAbs(ClicksChange(daily)), Rat(1, 10),
                                      <<WindowSum(Prev7(daily), "clicks"), WindowSum(Last7(daily), "clicks")>>
                                          \in ClicksTieBelow),
                         None, None,
                         <<"prev_rev=", FormatFixed(NpMean(Field(Prev7(daily), "revenue")), 2),
                           ", last_rev=", FormatFixed(NpMean(Field(Last7(daily), "revenue")), 2),
                           ", rev_drop_pct=", FormatFixed(RevDropPct(daily), 2),
                           ", clicks_change=", FormatFixed(ClicksChange(daily), 2)>>)
             ELSE Result(hid, FALSE, None, None,
                         <<"Insufficient daily data to assess data-quality signals.">>)
        ELSE Result(hid, FALSE, None, None, <<"No recent_summary or daily data present.">>)

\* hid.startswith("h_creative"), on the ids of the model
CreativePrefixed == {CreativeId(i) : i \in 1..(MaxLow + 1)} \cup {"h_creative", "h_creative_x"}
StartsWithCreative(hid) == hid \in CreativePrefixed

\* One pass of the body of `for h in hypotheses`
\* (variant) ids no branch names are treated as data-quality hypotheses
ValidateOneDataQualityByDefault(h, s, c, small) ==
    LET hid == Get(h, "hypothesis_id", None)
        daily == Get(s, "daily", <<>>)
    IN  IF hid = "h_roas_drop" THEN ValidateRoasDrop(hid, daily, small)
        ELSE IF hid = None THEN Raise
        ELSE IF StartsWithCreative(hid) THEN ValidateCreative(hid, h, s, c)
        ELSE IF hid = "h_audience_saturation" THEN ValidateAudienceSaturation(hid, daily)
        ELSE ValidateDataQuality(hid, daily, s)

ValidateOne(h, s, c, small) ==
    LET hid == Get(h, "hypothesis_id", None)
        daily == Get(s, "daily", <<>>)
    IN  IF hid = "h_roas_drop" THEN ValidateRoasDrop(hid, daily, small)
        ELSE IF hid = None THEN Raise    \* None.startswith: AttributeError
        ELSE IF StartsWithCreative(hid) THEN ValidateCreative(hid, h, s, c)
        ELSE IF hid = "h_audience_saturation" THEN ValidateAudienceSaturation(hid, daily)
        ELSE IF hid = "h_data_quality" THEN ValidateDataQuality(hid, daily, s)
        ELSE Result(hid, FALSE, None, None, <<"No validation logic for this hypothesis id.">>)

---------------------------------------------------------------------------
(* Inputs: summaries, configurations and caller-made hypotheses *)

Row(roas, spend, impressions, revenue, clicks) ==
    [roas |-> roas, spend |-> spend, impressions |-> impressions,
     revenue |-> revenue, clicks |-> clicks]

\* A window of 7 days: six days of `base` and a last day `odd`
WindowRows(base, odd) == [i \in 1..Window |-> IF i = Window THEN odd ELSE base]

\* The last n days of a series whose two trailing windows are as given,
\* preceded by days like the earlier window's
Series(n, pBase, pOdd, lBase, lOdd) ==
    LET lead == [i \in 1..(MaxDays - MinDays) |-> pBase]
        full == lead \o WindowRows(pBase, pOdd) \o WindowRows(lBase, lOdd)
    IN  IF n = 0 THEN <<>> ELSE PySlice(full, 0 - n, 0, TRUE)

Campaign(name, ctr, impressions) ==
    [campaign_name |-> name, ctr |-> ctr, impressions |-> impressions]

\* DataAgent: the campaigns whose ctr is below the threshold, in order
LowCtrOf(campaign) ==
    SelectSeq(campaign, LAMBDA c : c.ctr < LowCtrThreshold)

\* DataAgent's trailing-window aggregate (its content is not read by the agents)
SomeRecent == [impressions |-> 7, clicks |-> 7, spend |-> 7, revenue |-> 7]

MkSummary(daily, campaign, recent) ==
    [daily |-> daily, campaign |-> campaign, recent_summary |-> recent,
     low_ctr_campaigns |-> LowCtrOf(campaign)]

HashSeeds == {0, 1}
DayCounts == {0, 1, MinDays - 1, MinDays, MaxDays}

FlatRow == Row(2, 1, 1, 1, 1)
\* ROAS halves, spend doubles at equal impressions, revenue halves, clicks hold
BadRow == Row(1, 2, 1, 0, 1)

\* k low-CTR campaigns camp_1 .. camp_k (ctr 0.005, 1000 impressions)
LowCampaigns(k) == [j \in 1..k |-> Campaign("camp_" \o ToString(j), 5, 1000)]

PlatformMixes ==
    { <<>>,
      <<Campaign("search_generic", 30, 1000)>>,
      <<Campaign("Facebook_US", 30, 1000)>>,
      <<Campaign("instagram_reels", 30, 1000)>>,
      <<Campaign("Insta_Facebook_Mix", 30, 1000)>>,
      <<Campaign("INSTAGRAM_Stories", 30, 1000), Campaign("facebook_lookalike", 30, 1000)>>,
      <<Campaign("Facebook_US", 30, 1000), Campaign("instagram_reels", 30, 1000)>> }

---------------------------------------------------------------------------
(* The program: generate (or be handed) hypotheses, then validate them *)

Generate ==
    /\ pc = "start"
    /\ hypotheses' = generate_hypotheses(summary, cfg, hashSeed)
    /\ validations' = <<>>
    /\ idx' = 1
    /\ pc' = "validate"
    /\ UNCHANGED <<summary, cfg, pSmall, hashSeed, prevHyps, runs>>
    /\ UNCHANGED dataVars

\* for h in hypotheses: one pass; an exception leaves validate
ValidateStep ==
    /\ pc = "validate"
    /\ idx <= Len(hypotheses)
    /\ LET out == ValidateOne(hypotheses[idx], summary, cfg, pSmall)
       IN  IF out.raised
           THEN /\ pc' = "raised"
                /\ UNCHANGED <<validations, idx>>
           ELSE /\ validations' = Append(validations, out.result)
                /\ idx' = idx + 1
                /\ pc' = pc
    /\ UNCHANGED <<summary, cfg, pSmall, hashSeed, hypotheses, prevHyps, runs>>
    /\ UNCHANGED dataVars

Return ==
    /\ pc = "validate"
    /\ idx > Len(hypotheses)
    /\ pc' = "returned"
    /\ UNCHANGED <<summary, cfg, pSmall, hashSeed, hypotheses, prevHyps, validations, idx, runs>>
    /\ UNCHANGED dataVars

\* The program is started again on the same summary and configuration
NewRun ==
    /\ pc # "start"
    /\ runs < MaxRuns
    /\ runs' = runs + 1
    /\ hashSeed' \in HashSeeds
    /\ prevHyps' = hypotheses
    /\ hypotheses' = <<>>
    /\ validations' = <<>>
    /\ idx' = 1
    /\ pc' = "start"
    /\ UNCHANGED <<summary, cfg, pSmall>>
    /\ UNCHANGED dataVars

\* No CSV is being loaded: the summary is given
NoFile == [kind |-> "absent", columns |-> {}, rows |-> <<>>]
NoFrame == [columns |-> {}, rows |-> <<>>]
DataIdle ==
    /\ csv_file = NoFile
    /\ retries = 0 /\ delay_seconds = 0 /\ attempt = 0 /\ tries = 0 /\ sleeps = 0
    /\ df = NoFrame
    /\ exc = None
    /\ dpc = "idle"

InitRun(seeds) ==
    /\ DataIdle
    /\ hashSeed \in seeds
    /\ hypotheses = <<>>
    /\ prevHyps = <<>>
    /\ validations = <<>>
    /\ idx = 1
    /\ pc = "start"
    /\ runs = 1

(* Generator runs: ROAS series against the threshold, and campaign lists *)
RoasRow(r) == Row(r, 1, 1, 1, 1)

GenSummaries ==
    {MkSummary(Series(n, RoasRow(pb), RoasRow(po), RoasRow(lb), RoasRow(lo)),
               LowCampaigns(1), SomeRecent) :
        n \in {MinDays, MaxDays}, pb \in 0..MaxRoas, po \in 0..MaxRoas,
        lb \in 0..MaxRoas, lo \in 0..MaxRoas}
    \cup {MkSummary(Series(n, RoasRow(2), RoasRow(2), RoasRow(1), RoasRow(1)),
                    LowCampaigns(1), SomeRecent) : n \in 0..MaxDays}
    \cup {MkSummary(Series(MinDays, FlatRow, FlatRow, FlatRow, FlatRow),
                    LowCampaigns(k) \o mix, SomeRecent) :
            k \in 0..MaxLow, mix \in PlatformMixes}

GenConfigs == {EmptyDict, [roas_drop_threshold_pct |-> Rat(1, 2)]}

InitGen ==
    /\ summary \in GenSummaries
    /\ cfg \in GenConfigs
    /\ pSmall = FALSE
    /\ InitRun(HashSeeds)

NextGen == Generate \/ NewRun

SpecGen == InitGen /\ [][NextGen]_vars

---------------------------------------------------------------------------
(* Validation runs: the pipeline's own hypotheses, or a caller's *)

\* The text rule 2 writes for a campaign
CreativeText(name) ==
    <<"Campaign '", name, "' has low CTR", " (", "0.500%",
      ") suggesting creative underperformance or poor relevance.">>

\* Hypotheses a caller may hand to validate: ids only, no id, creative
\* hypotheses naming a campaign of the summary / an unknown campaign / none,
\* and hypotheses carrying explicit baseline/current evidence
HypPool ==
    { [hypothesis_id |-> "h_roas_drop"],
      [hypothesis_id |-> "h_audience_saturation"],
      [hypothesis_id |-> "h_data_quality"],
      [hypothesis_id |-> "h_platform_specific"],
      [hypothesis |-> <<"Revenue fell after the pixel update.">>],
      [hypothesis_id |-> "h_creative_1", hypothesis |-> CreativeText("camp_2")],
      [hypothesis_id |-> "h_creative_2", hypothesis |-> CreativeText("ghost")],
      [hypothesis_id |-> "h_creative_x", hypothesis |-> <<"Creatives look tired.">>],
      [hypothesis_id |-> "h_creative_1", hypothesis |-> CreativeText("camp_1"),
       baseline |-> 100, current |-> 100, impressions |-> 10],
      [hypothesis_id |-> "h_data_quality", baseline |-> 100, current |-> 40,
       impressions |-> 5000] }

RECURSIVE ListsUpTo(_)
ListsUpTo(n) ==
    IF n = 0 THEN {<<>>}
    ELSE LET shorter == ListsUpTo(n - 1)
         IN  shorter \cup {Append(l, h) : l \in {x \in shorter : Len(x) = n - 1}, h \in HypPool}

CallerLists == ListsUpTo(MaxHyps)

\* validate is called with a caller's list
Supply ==
    /\ pc = "start"
    /\ \E hs \in CallerLists : hypotheses' = hs
    /\ validations' = <<>>
    /\ idx' = 1
    /\ pc' = "validate"
    /\ UNCHANGED <<summary, cfg, pSmall, hashSeed, prevHyps, runs>>
    /\ UNCHANGED dataVars

\* camp_1 and camp_2 have a low CTR, camp_2 too few impressions, camp_3 is fine
CampaignLists ==
    { <<>>,
      <<Campaign("camp_1", 5, 1000), Campaign("camp_2", 5, 10), Campaign("camp_3", 30, 1000)>>,
      <<Campaign("camp_2", 5, 10), Campaign("camp_3", 30, 1000), Campaign("camp_1", 5, 1000)>> }

EvalSummaries ==
    {MkSummary(Series(n, FlatRow, FlatRow, last, last), camps, recent) :
        n \in DayCounts, last \in {FlatRow, BadRow}, camps \in CampaignLists,
        recent \in {EmptyDict, SomeRecent}}

Init ==
    /\ summary \in EvalSummaries
    /\ cfg = EmptyDict
    /\ pSmall \in BOOLEAN
    /\ InitRun({0})

Next == Generate \/ Supply \/ ValidateStep \/ Return

Spec == Init /\ [][Next]_vars

(* The pipeline on series whose spend and impressions vary *)
SatRow(spend, impressions) == Row(2, spend, impressions, 1, 1)

SatSummaries ==
    {MkSummary(Series(n, SatRow(ps, pi), SatRow(pos, poi), SatRow(ls, li), SatRow(los, loi)),
               LowCampaigns(1), SomeRecent) :
        n \in {MinDays, MaxDays},
        ps \in 0..MaxVal, pi \in 0..MaxVal, pos \in 0..MaxVal, poi \in 0..MaxVal,
        ls \in 0..MaxVal, li \in 0..MaxVal, los \in 0..MaxVal, loi \in 0..MaxVal}
    \cup {MkSummary(Series(MinDays, SatRow(p[1], p[2]), SatRow(p[1], p[2]),
                           SatRow(l[1], l[2]), SatRow(l[1], l[2])),
                    LowCampaigns(1), SomeRecent) :
            p \in {<<10, 1>>, <<1, 1>>, <<10, 10>>},
            l \in {<<11, 1>>, <<11, 10>>, <<10, 1>>, <<10, 10>>}}

InitSat ==
    /\ summary \in SatSummaries
    /\ cfg = EmptyDict
    /\ pSmall = FALSE
    /\ InitRun({0})

NextPipeline == Generate \/ ValidateStep \/ Return

SpecSat == InitSat /\ [][NextPipeline]_vars

(* The pipeline on series whose revenue and clicks vary *)
DqRow(revenue, clicks) == Row(2, 1, 1, revenue, clicks)

\* <<daily clicks on six days, clicks on the seventh>>
ClickPatterns == {<<0, 0>>, <<10, 10>>, <<11, 11>>, <<12, 12>>, <<1, 4>>, <<1, 5>>, <<1, 3>>}

DqSeries ==
    {Series(n, DqRow(pb, c[1]), DqRow(po, c[1]), DqRow(lb, c[2]), DqRow(lo, c[2])) :
        n \in {MinDays, MaxDays}, pb \in 0..MaxRev, po \in 0..MaxRev,
        lb \in 0..MaxRev, lo \in 0..MaxRev, c \in {<<10, 10>>, <<10, 12>>}}
    \cup {Series(MinDays, DqRow(r[1], p[1]), DqRow(r[1], p[2]), DqRow(r[2], l[1]), DqRow(r[2], l[2])) :
            r \in {<<2, 1>>, <<2, 2>>}, p \in ClickPatterns, l \in ClickPatterns}

InitDQ ==
    /\ summary \in {MkSummary(d, LowCampaigns(1), recent) :
                        d \in DqSeries, recent \in {EmptyDict, SomeRecent}}
    /\ cfg = EmptyDict
    /\ pSmall = FALSE
    /\ InitRun({0})

SpecDQ == InitDQ /\ [][NextPipeline]_vars

(* The pipeline on summaries with platform campaigns, and callers' lists of
   hypotheses whose ids no branch of validate names *)
OtherIds == {"h_platform_specific", "h_unknown", "", "H_ROAS_DROP", "h_creativ",
             "audience_saturation", "h_data_quality_2"}

SupplyOther ==
    /\ pc = "start"
    /\ \E a \in OtherIds, b \in OtherIds \cup {"h_data_quality"} :
          hypotheses' = <<[hypothesis_id |-> a, hypothesis |-> CreativeText("camp_1")],
                          [hypothesis_id |-> b]>>
    /\ validations' = <<>>
    /\ idx' = 1
    /\ pc' = "validate"
    /\ UNCHANGED <<summary, cfg, pSmall, hashSeed, prevHyps, runs>>
    /\ UNCHANGED dataVars

PipeSummaries ==
    {MkSummary(Series(n, FlatRow, FlatRow, last, last), LowCampaigns(k) \o mix, recent) :
        n \in {0, MinDays - 1, MinDays}, last \in {FlatRow, BadRow}, k \in {0, 1, MaxLow},
        mix \in PlatformMixes, recent \in {EmptyDict, SomeRecent}}

InitPipe ==
    /\ summary \in PipeSummaries
    /\ cfg = EmptyDict
    /\ pSmall \in BOOLEAN
    /\ InitRun(HashSeeds)

NextPipe == Generate \/ SupplyOther \/ ValidateStep \/ Return

SpecPipe == InitPipe /\ [][NextPipe]_vars

---------------------------------------------------------------------------
(* Loading the CSV: load_csv (src/utils/loader.py)                         *)
(* A date is a day number. A CSV is its set of columns and its rows; a row *)
(* records its cells and, in na, the columns whose cell is empty.          *)

RequiredColumnsDefault == {"date", "campaign_name", "impressions", "clicks", "spend", "revenue"}
CriticalColumns == {"date", "impressions", "clicks", "spend", "revenue"}
DefaultRetries == 3
DefaultDelaySeconds == 1

\* What one pass through the try block does with the file found at the path:
\* the exception it raises, or None with the cleaned dataframe
TryLoad(f) ==
    IF f.kind = "absent"
    THEN [exc |-> "DataLoaderError", df |-> NoFrame]      \* not csv_path.exists()
    ELSE IF f.kind = "garbage"
    THEN [exc |-> "ParserError", df |-> NoFrame]          \* pd.read_csv fails
    ELSE IF "date" \notin f.columns
    THEN [exc |-> "ValueError", df |-> NoFrame]           \* parse_dates = ["date"]
    ELSE IF RequiredColumnsDefault \ f.columns # {}
    THEN [exc |-> "DataLoaderError", df |-> NoFrame]      \* missing required columns
    ELSE LET kept == SelectSeq(f.rows, LAMBDA r : r.na \cap CriticalColumns = {})
             positive == SelectSeq(kept, LAMBDA r : r.impressions > 0)
         IN  [exc |-> None, df |-> [columns |-> f.columns, rows |-> positive]]

\* load_csv(path, retries = ..., delay_seconds = ...) is called
CallLoadCsv ==
    /\ dpc = "idle"
    /\ attempt' = 1
    /\ dpc' = "loop"
    /\ UNCHANGED <<summary, evalVars, csv_file, retries, delay_seconds, tries, sleeps, df, exc>>

\* if attempt >= retries
GivesUp(a, r) == a >= r

\* One pass of `while True`: the try block, and on an exception the handler,
\* which gives up or counts the attempt and sleeps
Attempt ==
    /\ dpc = "loop"
    /\ tries' = tries + 1
    /\ LET out == TryLoad(csv_file)
       IN  IF out.exc = None
           THEN /\ df' = out.df
                /\ dpc' = "loaded"
                /\ UNCHANGED <<attempt, sleeps, exc>>
           ELSE IF GivesUp(attempt, retries)
           THEN /\ exc' = "DataLoaderError"
                /\ dpc' = "raised"
                /\ UNCHANGED <<attempt, sleeps, df>>
           ELSE /\ attempt' = attempt + 1
                /\ IF delay_seconds < 0
                   THEN /\ exc' = "ValueError"      \* time.sleep of a negative length
                        /\ dpc' = "raised"
                        /\ UNCHANGED sleeps
                   ELSE /\ sleeps' = sleeps + 1
                        /\ UNCHANGED <<exc, dpc>>
                /\ UNCHANGED df
    /\ UNCHANGED <<summary, evalVars, csv_file, retries, delay_seconds>>

---------------------------------------------------------------------------
(* Summarising: DataAgent.load_and_summarize (src/agents/data_agent.py) *)

RecentDays == 7

RECURSIVE SortedSeq(_)
SortedSeq(S) ==
    IF S = {} THEN <<>>
    ELSE LET m == CHOOSE x \in S : \A y \in S : x <= y
         IN  <<m>> \o SortedSeq(S \ {m})

\* a / b with inf and NaN replaced by 0
RatioOrZero(a, b) == IF b = 0 THEN RZero ELSE Rat(a, b)
ColSum(rows, k) == SumSeq(Field(rows, k))

\* df.groupby("date").agg(...sum...) with ctr and roas
DailyOf(rows) ==
    LET dates == SortedSeq({rows[i].date : i \in 1..Len(rows)})
        day(d) == SelectSeq(rows, LAMBDA r : r.date = d)
    IN  [i \in 1..Len(dates) |->
            [date |-> dates[i],
             impressions |-> ColSum(day(dates[i]), "impressions"),
             clicks |-> ColSum(day(dates[i]), "clicks"),
             spend |-> ColSum(day(dates[i]), "spend"),
             revenue |-> ColSum(day(dates[i]), "revenue"),
             purchases |-> ColSum(day(dates[i]), "purchases"),
             ctr |-> RatioOrZero(ColSum(day(dates[i]), "clicks"), ColSum(day(dates[i]), "impressions")),
             roas |-> RatioOrZero(ColSum(day(dates[i]), "revenue"), ColSum(day(dates[i]), "spend"))]]

\* The campaign names of the files, in sorted order
CampaignNames == <<"A", "B">>

\* df.groupby("campaign_name").agg(...sum...) with ctr and roas
CampaignOf(rows) ==
    LET present == SelectSeq(CampaignNames,
                             LAMBDA c : \E i \in 1..Len(rows) : rows[i].campaign_name = c)
        of(c) == SelectSeq(rows, LAMBDA r : r.campaign_name = c)
    IN  [i \in 1..Len(present) |->
            [campaign_name |-> present[i],
             impressions |-> ColSum(of(present[i]), "impressions"),
             clicks |-> ColSum(of(present[i]), "clicks"),
             spend |-> ColSum(of(present[i]), "spend"),
             revenue |-> ColSum(of(present[i]), "revenue"),
             ctr |-> RatioOrZero(ColSum(of(present[i]), "clicks"), ColSum(of(present[i]), "impressions")),
             roas |-> RatioOrZero(ColSum(of(present[i]), "revenue"), ColSum(of(present[i]), "spend"))]]

MaxDateOf(rows) == CHOOSE d \in {rows[i].date : i \in 1..Len(rows)} :
                       \A i \in 1..Len(rows) : rows[i].date <= d
MinDateOf(rows) == CHOOSE d \in {rows[i].date : i \in 1..Len(rows)} :
                       \A i \in 1..Len(rows) : d <= rows[i].date

\* df[df["date"] >= max_date - timedelta(days=7)], summed, with ctr and roas
RecentSummaryOf(rows) ==
    LET recent_window == SelectSeq(rows, LAMBDA r : r.date >= MaxDateOf(rows) - RecentDays)
    IN  [impressions |-> ColSum(recent_window, "impressions"),
         clicks |-> ColSum(recent_window, "clicks"),
         spend |-> ColSum(recent_window, "spend"),
         revenue |-> ColSum(recent_window, "revenue"),
         ctr |-> IF ColSum(recent_window, "impressions") > 0
                 THEN Rat(ColSum(recent_window, "clicks"), ColSum(recent_window, "impressions"))
                 ELSE RZero,
         roas |-> IF ColSum(recent_window, "spend") > 0
                  THEN Rat(ColSum(recent_window, "revenue"), ColSum(recent_window, "spend"))
                  ELSE RZero]

\* campaign[campaign["ctr"] < low_ctr_threshold], threshold 0.01
LowCtrCampaignsOf(campaign) ==
    SelectSeq(campaign, LAMBDA c : RGt(Rat(1, 100), c.ctr))

\* The summary dictionary of a non-empty dataframe
SummaryOf(rows) ==
    [n_rows |-> Len(rows),
     date_range |-> <<MinDateOf(rows), MaxDateOf(rows)>>,
     daily |-> DailyOf(rows),
     campaign |-> CampaignOf(rows),
     recent_summary |-> RecentSummaryOf(rows),
     low_ctr_campaigns |-> LowCtrCampaignsOf(CampaignOf(rows))]

\* The rest of load_and_summarize, after load_csv(self.path) returned: the
\* daily aggregation needs a purchases column, the date range a row
Summarize ==
    /\ dpc = "loaded"
    /\ retries = DefaultRetries /\ delay_seconds = DefaultDelaySeconds
    /\ IF "purchases" \notin df.columns
       THEN exc' = "KeyError" /\ dpc' = "summary_raised" /\ UNCHANGED summary
       ELSE IF df.rows = <<>>
       THEN exc' = "ValueError" /\ dpc' = "summary_raised" /\ UNCHANGED summary
       ELSE summary' = SummaryOf(df.rows) /\ dpc' = "summarized" /\ UNCHANGED exc
    /\ UNCHANGED <<evalVars, csv_file, retries, delay_seconds, attempt, tries, sleeps, df>>

---------------------------------------------------------------------------
(* Data runs: files, and the file changing while load_csv sleeps *)

MaxRetries == 3
MaxDate == 9
MaxAmount == 2

AllColumns == RequiredColumnsDefault \cup {"purchases"}

CsvRow(d, name, impressions, amount, na) ==
    [date |-> d, campaign_name |-> name, impressions |-> impressions, clicks |-> amount,
     spend |-> 1, revenue |-> amount, purchases |-> 0, na |-> na]

\* One row a day from day `first` to MaxDate, campaign A on even days and B on
\* odd ones, with amount `old` up to 7 days before the last day and `new` after;
\* a dirty file also has a second row on the last day, a later row without
\* impressions and a row with an empty cell
CsvRows(first, old, new, dirty) ==
    LET clean == [i \in 1..(MaxDate - first + 1) |->
                    LET d == first + i - 1
                    IN  CsvRow(d, IF d % 2 = 0 THEN "A" ELSE "B", 100,
                               IF d <= MaxDate - RecentDays THEN old ELSE new, {})]
    IN  IF dirty
        THEN clean \o <<CsvRow(MaxDate, "A", 50, new, {}),
                        CsvRow(MaxDate + 1, "A", 0, new, {}),
                        CsvRow(MaxDate + 1, "B", 100, new, {"spend"})>>
        ELSE clean

CsvFiles ==
    {[kind |-> "csv", columns |-> cols, rows |-> CsvRows(first, old, new, dirty)] :
        cols \in {AllColumns, RequiredColumnsDefault},
        first \in 1..MaxDate, old \in 0..MaxAmount, new \in 0..MaxAmount, dirty \in BOOLEAN}
    \cup {[kind |-> "csv", columns |-> AllColumns, rows |-> <<CsvRow(MaxDate, "A", 0, 1, {})>>]}

BrokenFiles ==
    { NoFile,
      [kind |-> "garbage", columns |-> {}, rows |-> <<>>],
      [kind |-> "csv", columns |-> AllColumns \ {"revenue"}, rows |-> <<>>],
      [kind |-> "csv", columns |-> AllColumns \ {"date"}, rows |-> <<>>] }

\* While load_csv sleeps between two attempts the file is put in place
FileAppears ==
    /\ dpc = "loop"
    /\ attempt > 1
    /\ csv_file \in BrokenFiles
    /\ csv_file' = [kind |-> "csv", columns |-> AllColumns, rows |-> CsvRows(1, 1, 2, TRUE)]
    /\ UNCHANGED <<summary, evalVars, retries, delay_seconds, attempt, tries, sleeps, df, exc, dpc>>

InitData ==
    /\ summary = EmptyDict
    /\ cfg = EmptyDict
    /\ pSmall = FALSE
    /\ hashSeed = 0
    /\ hypotheses = <<>> /\ prevHyps = <<>> /\ validations = <<>>
    /\ idx = 1 /\ pc = "start" /\ runs = 1
    /\ csv_file \in CsvFiles \cup BrokenFiles
    /\ retries \in (0 - 1)..MaxRetries
    /\ delay_seconds \in {0 - 1, 0, DefaultDelaySeconds}
    /\ attempt = 0 /\ tries = 0 /\ sleeps = 0
    /\ df = NoFrame
    /\ exc = None
    /\ dpc = "idle"

NextData == CallLoadCsv \/ Attempt \/ FileAppears \/ Summarize

SpecData == InitData /\ [][NextData]_vars

---------------------------------------------------------------------------
(* Properties of the generator (checked under SpecGen) *)

Ids(hs) == [i \in 1..Len(hs) |-> Get(hs[i], "hypothesis_id", None)]
Generated == pc = "validate"

\* Names that contain "facebook" or "instagram" when case is ignored
PlatformNamed == {"Facebook_US", "instagram_reels", "Insta_Facebook_Mix",
                  "INSTAGRAM_Stories", "facebook_lookalike"}

ExpectedTailIds ==
    LET k == Min2(10, Len(summary.low_ctr_campaigns))
    IN  [i \in 1..k |-> CreativeId(i)]
        \o <<"h_audience_saturation">>
        \o (IF \E i \in 1..Len(summary.campaign) : summary.campaign[i].campaign_name \in PlatformNamed
            THEN <<"h_platform_specific">> ELSE <<>>)
        \o <<"h_data_quality">>

\* C4: the ids generate_hypotheses returns are, in order, h_roas_drop (optional),
\* h_creative_1..k with k = min(10, #low_ctr_campaigns), h_audience_saturation,
\* h_platform_specific (iff a campaign name contains a platform keyword, case
\* ignored), h_data_quality; at least two hypotheses, no id twice.
C4_IdsInFixedOrder ==
    Generated =>
        LET ids == Ids(hypotheses)
        IN  /\ ids \in {ExpectedTailIds, <<"h_roas_drop">> \o ExpectedTailIds}
            /\ Len(ids) >= 2
            /\ \A i, j \in 1..Len(ids) : i # j => ids[i] # ids[j]
            /\ Cardinality({i \in 1..Len(ids) : ids[i] = "h_audience_saturation"}) = 1
            /\ Cardinality({i \in 1..Len(ids) : ids[i] = "h_data_quality"}) = 1

C4_Witness ==
    /\ Generated
    /\ Len(summary.low_ctr_campaigns) > 10
    /\ \E i \in 1..Len(hypotheses) : hypotheses[i].hypothesis_id = "h_platform_specific"
    /\ \E i \in 1..Len(hypotheses) : hypotheses[i].hypothesis_id = "h_creative_10"

\* Sums of the ROAS of daily[-14:-7] and of daily[-7:], and the threshold
PrevRoasSum == SumSeq(Field(Prev7(summary.daily), "roas"))
LastRoasSum == SumSeq(Field(Last7(summary.daily), "roas"))
Threshold == Get(cfg, "roas_drop_threshold_pct", Rat(3, 20))
EmitsRoasDrop == \E i \in 1..Len(hypotheses) : hypotheses[i].hypothesis_id = "h_roas_drop"
\* (prev_mean - last_mean) / prev_mean compared with the threshold, cross-multiplied
DropAbove == (PrevRoasSum - LastRoasSum) * Threshold.d > Threshold.n * PrevRoasSum

\* C5: h_roas_drop is emitted exactly when daily has >= 14 entries,
\* prev_mean > 0 and the exact drop is strictly above the threshold (so a drop
\* equal to the threshold emits nothing).
C5_EmitsExactlyAboveThreshold ==
    Generated =>
        (EmitsRoasDrop <=> (Len(summary.daily) >= 14 /\ PrevRoasSum > 0 /\ DropAbove))

\* C6: two invocations of generate_hypotheses on the same summary and
\* configuration, in different runs of the program, return identical lists.
C6_SameOutputAcrossRuns ==
    (runs >= 2 /\ Generated) => hypotheses = prevHyps

---------------------------------------------------------------------------
(* Properties of Evaluator.validate (checked under Spec, SpecSat, SpecDQ) *)

\* validations[i] is the result of hypotheses[i]
Evaluated == 1..Len(validations)
HasId(i, id) == i \in Evaluated /\ validations[i].hypothesis_id = id
Ended == pc \in {"returned", "raised"}

\* C1: validate never raises: a failure on one hypothesis is contained and the
\* other hypotheses are still evaluated and returned.
C1_ValidateNeverRaises == pc # "raised"

\* C2: validate returns a list as long as its input whose i-th result carries
\* the i-th hypothesis's id.
C2_OneResultPerHypothesisInOrder ==
    Ended =>
        /\ pc = "returned"
        /\ Len(validations) = Len(hypotheses)
        /\ \A i \in 1..Len(hypotheses) :
              validations[i].hypothesis_id = Get(hypotheses[i], "hypothesis_id", None)

WindowedIds == {"h_roas_drop", "h_audience_saturation", "h_data_quality"}
InsufficientEvidence(hid) ==
    IF hid = "h_roas_drop" THEN <<"Insufficient daily data (<14 days) to test ROAS windows.">>
    ELSE IF hid = "h_audience_saturation"
    THEN <<"Insufficient daily data to evaluate audience saturation.">>
    ELSE <<"Insufficient daily data to assess data-quality signals.">>
NoDataEvidence == <<"No recent_summary or daily data present.">>

\* C3: with fewer than 14 daily entries every windowed rule returns
\* validated = False with no p-value or effect size (no window is computed) and
\* evidence saying the data is insufficient: the rule's "Insufficient daily
\* data" text, or, for h_data_quality when daily is empty or the summary has no
\* non-empty recent_summary, "No recent_summary or daily data present."
C3_ShortDailyNeverValidates ==
    \A i \in Evaluated :
        (validations[i].hypothesis_id \in WindowedIds /\ Len(summary.daily) < 14) =>
            /\ ~validations[i].validated
            /\ validations[i].p_value = None /\ validations[i].effect_size = None
            /\ validations[i].evidence =
                  IF validations[i].hypothesis_id = "h_data_quality"
                     /\ (Len(summary.daily) = 0 \/ summary.recent_summary = EmptyDict)
                  THEN NoDataEvidence
                  ELSE InsufficientEvidence(validations[i].hypothesis_id)

C3_Witness ==
    /\ Len(summary.daily) = 13
    /\ summary.daily[13] = BadRow
    /\ \E i \in Evaluated : HasId(i, "h_audience_saturation")
    /\ \E i \in Evaluated : HasId(i, "h_data_quality") /\ validations[i].evidence = NoDataEvidence

\* The campaign a hypothesis text names (None: it names none)
NamedCampaign(h) ==
    IF "hypothesis" \in DOMAIN h /\ Len(h.hypothesis) >= 3 /\ h.hypothesis[1] = "Campaign '"
    THEN h.hypothesis[2] ELSE None
IsCreativeId(id) == id \in {"h_creative_1", "h_creative_2", "h_creative_x"}
QualifiesAsLowCtr(c) == c.ctr < 10 /\ c.impressions >= 50
CampaignsNamed(name) ==
    {j \in 1..Len(summary.campaign) : summary.campaign[j].campaign_name = name}

\* C7: an h_creative_* hypothesis that names a campaign is validated exactly when
\* that campaign is in summary.campaign with ctr < 0.01 and impressions >= 50; an
\* unknown campaign gives validated = False with "No matching campaign found";
\* the first low-CTR campaign is used only when the text names no campaign.
C7_JudgedOnNamedCampaign ==
    \A i \in Evaluated :
        IsCreativeId(validations[i].hypothesis_id) =>
            LET name == NamedCampaign(hypotheses[i])
            IN  IF name # None
                THEN /\ validations[i].validated <=>
                            \E j \in CampaignsNamed(name) : QualifiesAsLowCtr(summary.campaign[j])
                     /\ CampaignsNamed(name) = {} =>
                            validations[i].evidence = <<"No matching campaign found in summary.">>
                ELSE validations[i].validated <=>
                         /\ Len(summary.low_ctr_campaigns) > 0
                         /\ QualifiesAsLowCtr(summary.low_ctr_campaigns[1])

HasExplicitEvidence(h) == {"baseline", "current"} \subseteq DOMAIN h
AbsDelta(h) == IF h.current >= h.baseline THEN h.current - h.baseline ELSE h.baseline - h.current
\* |current - baseline| / baseline >= 0.20, impressions >= 500 and
\* round(0.5 * min(impressions/5000, 1) + 0.5 * min(relative_delta/0.5, 1), 2) >= 0.6
MeetsExplicitThresholds(h) ==
    /\ h.baseline > 0
    /\ 5 * AbsDelta(h) >= h.baseline
    /\ Get(h, "impressions", 0) >= 500
    /\ 2 * h.baseline * Min2(Get(h, "impressions", 0), 5000)
         + 200 * Min2(100 * AbsDelta(h), 50 * h.baseline) >= 11900 * h.baseline

\* C10: a hypothesis carrying baseline/current is validated only if its relative
\* delta, impressions and confidence all reach their thresholds, whatever its id.
C10_ExplicitEvidenceThresholds ==
    \A i \in Evaluated :
        (HasExplicitEvidence(hypotheses[i]) /\ validations[i].validated) =>
            MeetsExplicitThresholds(hypotheses[i])

(* h_audience_saturation, under SpecSat *)
PrevSpend == WindowSum(Prev7(summary.daily), "spend")
PrevImp == WindowSum(Prev7(summary.daily), "impressions")
LastSpend == WindowSum(Last7(summary.daily), "spend")
LastImp == WindowSum(Last7(summary.daily), "impressions")

\* The reference of C8: means of the per-day spend / impressions (0 on a day
\* without impressions), and their relative change
DayCostPerImpression(row) ==
    IF row.impressions = 0 THEN Rat(0, 1) ELSE Rat(row.spend, row.impressions)
MeanDayCost(rows) ==
    RDiv(RSumSeq([i \in 1..Len(rows) |-> DayCostPerImpression(rows[i])]), Rat(Len(rows), 1))
PerDayCpChange ==
    LET cp_prev == MeanDayCost(Prev7(summary.daily))
        cp_last == MeanDayCost(Last7(summary.daily))
    IN  IF RPos(cp_prev) THEN RDiv(RSub(cp_last, cp_prev), cp_prev) ELSE Rat(0, 1)

\* C8 as stated: with >= 14 entries h_audience_saturation is validated exactly
\* when the change of the mean per-day cost per impression exceeds 0.10 (an
\* exact 0.10 is not held against the code).
C8_ValidatedByPerDayCost ==
    \A i \in Evaluated :
        (HasId(i, "h_audience_saturation") /\ Len(summary.daily) >= 14) =>
            /\ RGt(PerDayCpChange, Rat(1, 10)) => validations[i].validated
            /\ validations[i].validated => ~RGt(Rat(1, 10), PerDayCpChange)

\* C8 amended: cp_prev and cp_last are each window's mean spend divided by its
\* mean impressions (0 when the window has no impressions), cp_change =
\* (cp_last - cp_prev)/cp_prev when cp_prev > 0, else 0, and validated is true
\* exactly when cp_change > 0.10; cross-multiplied over the window sums. Only a
\* cp_change of exactly 0.10 is left to the rounding of the double arithmetic.
C8_ValidatedByWindowCost ==
    \A i \in Evaluated :
        (HasId(i, "h_audience_saturation") /\ Len(summary.daily) >= 14) =>
            LET defined == PrevImp > 0 /\ PrevSpend > 0 /\ LastImp > 0
            IN  /\ (defined /\ 10 * LastSpend * PrevImp > 11 * PrevSpend * LastImp)
                      => validations[i].validated
                /\ validations[i].validated
                      => (defined /\ 10 * LastSpend * PrevImp >= 11 * PrevSpend * LastImp)

C8_Witness ==
    /\ \E i \in Evaluated : HasId(i, "h_audience_saturation") /\ validations[i].validated
    /\ Len(summary.daily) >= 14
    /\ ~Constant(Field(Prev7(summary.daily), "impressions"))
    /\ ~Constant(Field(Last7(summary.daily), "spend"))

(* h_data_quality, under SpecDQ *)
PrevRev == WindowSum(Prev7(summary.daily), "revenue")
LastRev == WindowSum(Last7(summary.daily), "revenue")
PrevClicks == WindowSum(Prev7(summary.daily), "clicks")
LastClicks == WindowSum(Last7(summary.daily), "clicks")
ClicksDelta == IF LastClicks >= PrevClicks THEN LastClicks - PrevClicks ELSE PrevClicks - LastClicks
\* rev_drop_pct > 0.2 / = 0.2 and |clicks_change| < 0.1 / = 0.1, cross-multiplied
RevDropAbove == PrevRev > 0 /\ 5 * (PrevRev - LastRev) > PrevRev
RevDropEqual == PrevRev > 0 /\ 5 * (PrevRev - LastRev) = PrevRev
ClicksStable == PrevClicks <= 0 \/ 10 * ClicksDelta < PrevClicks
ClicksEqual == PrevClicks > 0 /\ 10 * ClicksDelta = PrevClicks
DataQualityRule(validated) ==
    /\ (RevDropAbove /\ ClicksStable) => validated
    /\ validated => ((RevDropAbove \/ RevDropEqual) /\ (ClicksStable \/ ClicksEqual))

\* C9 as stated: with >= 14 entries h_data_quality is validated exactly when
\* rev_drop_pct > 0.2 and |clicks_change| < 0.1, whether or not the summary
\* carries a non-empty recent_summary (exact ties are not held against the code).
C9_DependsOnlyOnDaily ==
    \A i \in Evaluated :
        (HasId(i, "h_data_quality") /\ Len(summary.daily) >= 14) =>
            DataQualityRule(validations[i].validated)

\* C9 amended: with >= 14 entries and a non-empty recent_summary h_data_quality
\* is validated exactly when rev_drop_pct > 0.2 and |clicks_change| < 0.1 (only
\* exact ties are left to the rounding of the double arithmetic); without a
\* non-empty recent_summary it is never validated and the evidence is
\* "No recent_summary or daily data present."
C9_NeedsRecentSummary ==
    \A i \in Evaluated :
        (HasId(i, "h_data_quality") /\ Len(summary.daily) >= 14) =>
            IF summary.recent_summary # EmptyDict
            THEN DataQualityRule(validations[i].validated)
            ELSE ~validations[i].validated /\ validations[i].evidence = NoDataEvidence

C9_Witness ==
    /\ \E i \in Evaluated : HasId(i, "h_data_quality") /\ validations[i].validated
    /\ Len(summary.daily) >= 14
    /\ summary.recent_summary # EmptyDict
    /\ RevDropAbove /\ PrevClicks # LastClicks

---------------------------------------------------------------------------
(* Properties of load_csv and load_and_summarize (checked under SpecData) *)

\* C11: load_csv makes at most `retries` attempts (none more than that also for
\* retries <= 0), returns the cleaned data of the attempt that succeeds, and
\* leaves by no exception other than DataLoaderError.
C11_AtMostRetriesAttempts ==
    /\ tries <= Max2(retries, 0)
    /\ dpc = "raised" => exc = "DataLoaderError"
    /\ dpc = "loaded" => (TryLoad(csv_file).exc = None /\ df = TryLoad(csv_file).df)

\* C12: the summary has totals (spend, revenue, clicks, impressions summed over
\* the loaded rows) and overall (ctr = clicks / impressions, roas = revenue / spend).
C12_TotalsAndOverall ==
    dpc = "summarized" =>
        /\ "totals" \in DOMAIN summary
        /\ "overall" \in DOMAIN summary
        /\ \A k \in {"spend", "revenue", "clicks", "impressions"} :
              summary.totals[k] = ColSum(df.rows, k)
        /\ summary.overall.ctr = RatioOrZero(ColSum(df.rows, "clicks"), ColSum(df.rows, "impressions"))
        /\ summary.overall.roas = RatioOrZero(ColSum(df.rows, "revenue"), ColSum(df.rows, "spend"))

\* The rows dated within the 7 days that end on the latest date
TrailingSevenDays ==
    SelectSeq(df.rows, LAMBDA r : MaxDateOf(df.rows) - 6 <= r.date /\ r.date <= MaxDateOf(df.rows))

\* C13: recent_summary aggregates exactly the rows dated max_date - 6 days ..
\* max_date; no row dated 7 or more days before the latest date contributes.
C13_TrailingSevenDaysOnly ==
    dpc = "summarized" =>
        \A k \in {"impressions", "clicks", "spend", "revenue"} :
            summary.recent_summary[k] = ColSum(TrailingSevenDays, k)

---------------------------------------------------------------------------
(* The pipeline's fallback (checked under SpecPipe) *)

NoLogicEvidence == <<"No validation logic for this hypothesis id.">>
HasStrategy(id) ==
    id \in WindowedIds \cup {CreativeId(i) : i \in 1..MaxCreative}
FallbackResult(id) ==
    [hypothesis_id |-> id, validated |-> FALSE, p_value |-> None, effect_size |-> None,
     evidence |-> NoLogicEvidence]

\* C14: every result of validate belongs to the hypothesis at its position; an
\* id with a strategy (h_roas_drop, h_creative_i, h_audience_saturation,
\* h_data_quality) never gets the fallback evidence; every other string id,
\* h_platform_specific included, gets validated = False, no p-value, no effect
\* size and "No validation logic for this hypothesis id."; no exception is raised.
C14_OtherIdsGetFallback ==
    /\ pc # "raised"
    /\ \A i \in Evaluated :
          LET id == hypotheses[i].hypothesis_id
          IN  /\ validations[i].hypothesis_id = id
              /\ IF HasStrategy(id)
                 THEN validations[i].evidence # NoLogicEvidence
                 ELSE validations[i] = FallbackResult(id)

C14_Witness ==
    /\ pc = "returned"
    /\ Len(summary.daily) >= 14 /\ summary.recent_summary # EmptyDict
    /\ Ids(hypotheses) = <<"h_creative_1", "h_audience_saturation", "h_platform_specific",
                           "h_data_quality">>
    /\ validations[3] = FallbackResult("h_platform_specific")

====
